---- MODULE Spec2Model ----
(***************************************************************************)
(* Model of the InsightHub sensor ingestion service:                       *)
(*   src/src/server/index.ts   the route handler and validateSensorData    *)
(*   src/src/server/types.ts   the request shapes                          *)
(*   src/supabase/migrations/20250325192021_floating_band.sql              *)
(*                             the sensor_readings table and its policies  *)
(*                                                                         *)
(* JavaScript values are records [t, n, s]: t is the kind of the value,    *)
(* n its integer payload (numbers) and s its string payload (strings).     *)
(* Strings that the code inspects character by character (the              *)
(* Authorization header) are sequences of one-character strings.           *)
(***************************************************************************)
EXTENDS Integers, Sequences, FiniteSets, TLC

VARIABLES reqs, db, nreq, vdata, vresult

vars == <<reqs, db, nreq, vdata, vresult>>

----------------------------------------------------------------------------
(* JavaScript values *)

Undef == [t |-> "undefined", n |-> 0, s |-> ""]

JNull == [t |-> "null", n |-> 0, s |-> ""]

NaN == [t |-> "nan", n |-> 0, s |-> ""]

PosInf == [t |-> "inf", n |-> 0, s |-> ""]

NegInf == [t |-> "ninf", n |-> 0, s |-> ""]

Num(k) == [t |-> "number", n |-> k, s |-> ""]

Str(x) == [t |-> "string", n |-> 0, s |-> x]

\* typeof v: NaN and the infinities are of type 'number'
typeof(v) == IF v.t \in {"number", "nan", "inf", "ninf"} THEN "number"
             ELSE IF v.t = "null" THEN "object"
             ELSE v.t

isNaN(v) == v.t = "nan"

\* !v : undefined, null, "", 0 and NaN are falsy
Falsy(v) == \/ v.t \in {"undefined", "null", "nan"}
            \/ v.t = "string" /\ v.s = ""
            \/ v.t = "number" /\ v.n = 0

\* a < b on values of type 'number': every comparison with NaN is false
Lt(a, b) == CASE a.t = "nan" \/ b.t = "nan" -> FALSE
              [] a.t = "ninf" -> b.t # "ninf"
              [] a.t = "inf" -> FALSE
              [] b.t = "inf" -> TRUE
              [] b.t = "ninf" -> FALSE
              [] OTHER -> a.n < b.n

----------------------------------------------------------------------------
(* validateSensorData *)

TempMin == -50

TempMax == 150

NonNegMin == 0

numericFields == <<"temperature", "pressure", "vibration", "energy_consumption">>

NoError == "null"

TypeError == "TypeError"

\* lines 34-40, the loop over numericFields: the message for the first field, from
\* position k on, that is not a number or is NaN
RECURSIVE FirstInvalidField(_, _)
FirstInvalidField(data, k) ==
  IF k > Len(numericFields) THEN NoError
  ELSE IF typeof(data[numericFields[k]]) # "number" \/ isNaN(data[numericFields[k]])
       THEN "Invalid " \o numericFields[k]
       ELSE FirstInvalidField(data, k + 1)

\* a <= b on values of type 'number'
Le(a, b) == Lt(a, b) \/ (a.t = b.t /\ a.n = b.n /\ a.t # "nan")

\* variant of RangeError: the bounds themselves are refused
RangeErrorExclusive(data) ==
  IF Le(data.temperature, Num(TempMin)) \/ Le(Num(TempMax), data.temperature)
  THEN "Temperature must be between -50 and 150"
  ELSE IF Le(data.pressure, Num(NonNegMin))
  THEN "Pressure must be non-negative"
  ELSE IF Le(data.vibration, Num(NonNegMin))
  THEN "Vibration must be non-negative"
  ELSE IF Le(data.energy_consumption, Num(NonNegMin))
  THEN "Energy consumption must be non-negative"
  ELSE NoError

\* lines 42-56: the range checks, reached when the four fields are numbers
RangeError(data) ==
  IF Lt(data.temperature, Num(TempMin)) \/ Lt(Num(TempMax), data.temperature)
  THEN "Temperature must be between -50 and 150"
  ELSE IF Lt(data.pressure, Num(NonNegMin))
  THEN "Pressure must be non-negative"
  ELSE IF Lt(data.vibration, Num(NonNegMin))
  THEN "Vibration must be non-negative"
  ELSE IF Lt(data.energy_consumption, Num(NonNegMin))
  THEN "Energy consumption must be non-negative"
  ELSE NoError

\* variant of validateSensorData: the ranges are checked before the types
validateSensorDataRangesFirst(data) ==
  IF ~data.def THEN TypeError
  ELSE IF Falsy(data.asset_id) \/ typeof(data.asset_id) # "string"
  THEN "Invalid asset_id"
  ELSE IF RangeError(data) # NoError
  THEN RangeError(data)
  ELSE FirstInvalidField(data, 1)

\* lines 27-57; data.def = FALSE is the value undefined: reading a property
\* of it throws
validateSensorData(data) ==
  IF ~data.def THEN TypeError
  ELSE IF Falsy(data.asset_id) \/ typeof(data.asset_id) # "string"
  THEN "Invalid asset_id"
  ELSE IF FirstInvalidField(data, 1) # NoError
  THEN FirstInvalidField(data, 1)
  ELSE RangeError(data)

----------------------------------------------------------------------------
(* Strings of the Authorization header *)

\* authHeader?.startsWith(p) on a defined string
StartsWith(str, p) ==
  /\ Len(str) >= Len(p)
  /\ \A k \in 1..Len(p) : str[k] = p[k]

\* str.split(sep) for a one-character separator: the pieces between separators
RECURSIVE SplitFrom(_, _, _, _, _)
SplitFrom(str, sep, k, cur, acc) ==
  IF k > Len(str) THEN Append(acc, cur)
  ELSE IF str[k] = sep THEN SplitFrom(str, sep, k + 1, <<>>, Append(acc, cur))
  ELSE SplitFrom(str, sep, k + 1, Append(cur, str[k]), acc)

Split(str, sep) == SplitFrom(str, sep, 1, <<>>, <<>>)

BearerPrefix == <<"B", "e", "a", "r", "e", "r", " ">>

AbsentHeader == [def |-> FALSE, chars |-> <<>>]

Header(chars) == [def |-> TRUE, chars |-> chars]

\* variant of HeaderOk: only the presence of the header is checked
HeaderOkPresentOnly(h) == h.def

\* the header check passes: authHeader?.startsWith('Bearer ') is true
HeaderOk(h) == h.def /\ StartsWith(h.chars, BearerPrefix)

\* authHeader.split(' ')[1]: undefined (def = FALSE) without a second piece
TokenOf(h) ==
  IF Len(Split(h.chars, " ")) >= 2
  THEN [def |-> TRUE, chars |-> Split(h.chars, " ")[2]]
  ELSE [def |-> FALSE, chars |-> <<>>]

----------------------------------------------------------------------------
(* The storage provider: table sensor_readings, its constraints and policy *)

\* the key the client is created with decides the database role of its calls
ClientRole == "service_role"

\* the service role is exempt from row level security; policies bind the
\* roles they are declared TO
BypassRLS(role) == role = "service_role"

\* table user_roles: user_id -> role; a user without a row has no role
UserRoles == [u_admin |-> "admin", u_engineer |-> "engineer",
              u_operator |-> "operator", u_none |-> "none"]

Users == DOMAIN UserRoles

\* get_user_role(): the role of auth.uid(); NULL (here "none") without a uid
get_user_role(uid) == IF uid \in Users THEN UserRoles[uid] ELSE "none"

\* policy "System can insert sensor readings": FOR INSERT TO authenticated
InsertPolicy(role, uid) ==
  role = "authenticated" /\ get_user_role(uid) \in {"admin", "engineer"}

\* rows of table assets (the targets of the foreign key)
Assets == {"A1"}

\* strings that parse as timestamptz
ValidTimestamps == {"2025-03-25T19:20:21.000Z", "2025-03-26T00:00:00.000Z"}

\* JSON.stringify of a value of the row: NaN and the infinities become null
ToJson(v) == IF v.t \in {"nan", "inf", "ninf"} THEN JNull ELSE v

\* a key whose value is undefined is left out of the JSON: the column takes
\* its default
Column(v, default) == IF ToJson(v).t = "undefined" THEN default ELSE ToJson(v)

\* a CHECK constraint is satisfied when its expression is true or NULL
valid_temperature(v) == v.t = "null" \/ (v.n >= TempMin /\ v.n <= TempMax)

valid_pressure(v) == v.t = "null" \/ v.n >= NonNegMin

valid_vibration(v) == v.t = "null" \/ v.n >= NonNegMin

valid_energy(v) == v.t = "null" \/ v.n >= NonNegMin

IsDecimal(v) == v.t \in {"null", "number"}

\* the row as the table would store it; id stands for uuid_generate_v4() and
\* dbnow for now(); by is no column: it records the request the row came from
StoredRow(row, id, by, dbnow) ==
  [id |-> id,
   by |-> by,
   asset_id |-> Column(row.asset_id, JNull),
   timestamp |-> Column(row.timestamp, Str(dbnow)),
   temperature |-> Column(row.temperature, JNull),
   pressure |-> Column(row.pressure, JNull),
   vibration |-> Column(row.vibration, JNull),
   energy_consumption |-> Column(row.energy_consumption, JNull)]

\* the error the database answers an INSERT of the stored row with, or NoError
InsertError(st, role, uid) ==
  IF ~(IsDecimal(st.temperature) /\ IsDecimal(st.pressure)
       /\ IsDecimal(st.vibration) /\ IsDecimal(st.energy_consumption))
  THEN "22P02 invalid input syntax for type numeric"
  ELSE IF ~(st.asset_id.t \in {"null", "string"})
  THEN "22P02 invalid input syntax for type uuid"
  ELSE IF ~(st.timestamp.t = "null"
            \/ (st.timestamp.t = "string" /\ st.timestamp.s \in ValidTimestamps))
  THEN "22007 invalid input syntax for type timestamp with time zone"
  ELSE IF ~(BypassRLS(role) \/ InsertPolicy(role, uid))
  THEN "42501 new row violates row-level security policy"
  ELSE IF ~valid_temperature(st.temperature)
  THEN "23514 violates check constraint valid_temperature"
  ELSE IF ~valid_pressure(st.pressure)
  THEN "23514 violates check constraint valid_pressure"
  ELSE IF ~valid_vibration(st.vibration)
  THEN "23514 violates check constraint valid_vibration"
  ELSE IF ~valid_energy(st.energy_consumption)
  THEN "23514 violates check constraint valid_energy"
  ELSE IF ~(st.asset_id.t = "null" \/ st.asset_id.s \in Assets)
  THEN "23503 violates foreign key constraint"
  ELSE NoError

----------------------------------------------------------------------------
(* The route handler app.post('/api/ingest-sensor/:id?') *)

NoBody == [def |-> FALSE, asset_id |-> Undef, temperature |-> Undef,
           pressure |-> Undef, vibration |-> Undef, energy_consumption |-> Undef]

Body(a, t, p, v, e) == [def |-> TRUE, asset_id |-> a, temperature |-> t,
                        pressure |-> p, vibration |-> v, energy_consumption |-> e]

NoRow == [def |-> FALSE, asset_id |-> Undef, temperature |-> Undef,
          pressure |-> Undef, vibration |-> Undef, energy_consumption |-> Undef,
          timestamp |-> Undef]

\* outcomes of supabaseClient.auth.getUser(token):
\*   user   { data: { user }, error: null }       the token's user
\*   error  { data: { user: null }, error }       the provider rejects the token
\*   nouser { data: { user: null }, error: null } no identity resolved
\*   throw  the call throws
NoAuth == [kind |-> "none", uid |-> ""]

AuthOutcomes == [kind : {"user"}, uid : Users]
                \cup [kind : {"error", "nouser", "throw"}, uid : {""}]

\* outcomes of the insert call: the database executes the statement ("exec"),
\* or the provider fails before that and returns ("error") or throws ("throw")
\* a failure carrying a detail
NoIns == [kind |-> "none", detail |-> ""]

ProviderFailures == {"ETIMEDOUT", "ECONNRESET"}

InsOutcomes == [kind : {"exec"}, detail : {""}]
               \cup [kind : {"error", "throw"}, detail : ProviderFailures]

IdleReq == [pc |-> "idle", id |-> 0, header |-> AbsentHeader, body |-> NoBody,
            query |-> Undef, token |-> [def |-> FALSE, chars |-> <<>>], auth |-> NoAuth, clock |-> "",
            row |-> NoRow, ins |-> NoIns, calls |-> <<>>,
            status |-> 0, rbody |-> "", nresp |-> 0]

\* res.status(code).json(body); return
Respond(r, code, msg) ==
  [r EXCEPT !.pc = "done",
            !.status = IF r.nresp = 0 THEN code ELSE r.status,
            !.rbody = IF r.nresp = 0 THEN msg ELSE r.rbody,
            !.nresp = r.nresp + 1]

\* variant of InsertRow: the query parameter is ignored
InsertRowAlwaysNow(body, timestamp, now) ==
  [def |-> TRUE, asset_id |-> body.asset_id, temperature |-> body.temperature,
   pressure |-> body.pressure, vibration |-> body.vibration,
   energy_consumption |-> body.energy_consumption,
   timestamp |-> Str(now)]

\* the object handed to .insert(...)
InsertRow(body, timestamp, now) ==
  [def |-> TRUE, asset_id |-> body.asset_id, temperature |-> body.temperature,
   pressure |-> body.pressure, vibration |-> body.vibration,
   energy_consumption |-> body.energy_consumption,
   timestamp |-> IF Falsy(timestamp) THEN Str(now) ELSE timestamp]

\* variant of BodyOf: the body is read from a place the requests share
BodyOfFirst(rs, i) == rs[CHOOSE j \in DOMAIN rs : \A k \in DOMAIN rs : j <= k].body

\* req.body in the handler of request i
BodyOf(rs, i) == rs[i].body

\* variant of AuthRejected: a missing user is not checked
AuthRejectedErrorOnly(outcome) == outcome.kind = "error"

\* authError || !user
AuthRejected(outcome) == outcome.kind \in {"error", "nouser"}

\* lines 66-77: the header check, up to the await of getUser
HandlerStart(r) ==
  IF ~HeaderOk(r.header)
  THEN Respond(r, 401, "Missing or invalid Authorization header")
  ELSE [r EXCEPT !.pc = "awaitGetUser",
                 !.token = TokenOf(r.header),
                 !.calls = Append(r.calls, "getUser")]

\* variant of AfterValidation: no return after the error responses
AfterValidationNoReturn(r, validationError, now) ==
  [(IF validationError = TypeError
    THEN Respond(r, 500, "Internal server error")
    ELSE IF validationError # NoError
    THEN Respond(r, 400, validationError)
    ELSE r)
   EXCEPT !.pc = "awaitInsert", !.clock = now,
          !.row = InsertRow(r.body, r.query, now),
          !.calls = Append(r.calls, "insert")]

\* lines 84-100: the validation result, up to the await of the insert
AfterValidation(r, validationError, now) ==
  IF validationError = TypeError
  THEN Respond(r, 500, "Internal server error")
  ELSE IF validationError # NoError
  THEN Respond(r, 400, validationError)
  ELSE [r EXCEPT !.pc = "awaitInsert",
                 !.clock = now,
                 !.row = InsertRow(r.body, r.query, now),
                 !.calls = Append(r.calls, "insert")]

\* lines 77-100: getUser has settled with outcome
HandlerAfterGetUser(rs, i, outcome, now) ==
  IF outcome.kind = "throw"
  THEN Respond([rs[i] EXCEPT !.auth = outcome], 500, "Internal server error")
  ELSE IF AuthRejected(outcome)
  THEN Respond([rs[i] EXCEPT !.auth = outcome], 401, "Invalid token")
  ELSE AfterValidation([rs[i] EXCEPT !.auth = outcome],
                       validateSensorData(BodyOf(rs, i)), now)

\* variant of StorageFailureBody: the error is sent back
StorageFailureBodyEcho(insertError) == insertError

\* the body of the 500 response to an insert that returned insertError
StorageFailureBody(insertError) == "Failed to store sensor reading"

\* the body of the 500 response to an exception
ExceptionBody(error) == "Internal server error"

\* lines 91-109: the insert has settled; insertError is NoError or the error
\* the provider returned, thrown tells a thrown one
HandlerAfterInsert(r, insertError, thrown) ==
  IF thrown THEN Respond(r, 500, ExceptionBody(insertError))
  ELSE IF insertError # NoError
  THEN Respond(r, 500, StorageFailureBody(insertError))
  ELSE Respond(r, 200, "Sensor reading stored successfully")

----------------------------------------------------------------------------
(* Inputs *)

\* requests per behaviour: in sequence under Spec, concurrent under SpecConc
MaxRequests == 2

\* distance of the sampled numbers from the bounds of the ranges
Margin == 1

Chars_Bearer_t == <<"B", "e", "a", "r", "e", "r", " ", "t">>

Chars_Bearer_ == <<"B", "e", "a", "r", "e", "r", " ">>

Chars_Bearer == <<"B", "e", "a", "r", "e", "r">>

Chars_bearer_t == <<"b", "e", "a", "r", "e", "r", " ", "t">>

Chars_Basic_t == <<"B", "a", "s", "i", "c", " ", "t">>

Headers == {AbsentHeader, Header(Chars_Bearer_t), Header(Chars_Bearer_),
            Header(Chars_Bearer), Header(Chars_bearer_t), Header(Chars_Basic_t)}

\* new Date().toISOString() at the time of the call
Clock == {"2025-03-25T19:20:21.000Z"}

\* req.query.timestamp: absent, empty, two well-formed ones, a malformed one
Queries == {Undef, Str(""), Str("2025-03-25T19:20:21.000Z"),
            Str("2025-03-26T00:00:00.000Z"), Str("yesterday")}

Bodies == {NoBody,
           Body(Str("A1"), Num(TempMin), Num(NonNegMin), Num(NonNegMin), Num(NonNegMin)),
           Body(Str("A1"), Num(TempMax), Num(Margin), Num(Margin), Num(Margin)),
           Body(Str("A1"), Num(TempMax + Margin), Num(0), Num(0), Num(0)),
           Body(Str("A1"), Num(TempMin - Margin), Num(0), Num(0), Num(0)),
           Body(Str("A1"), Num(0), Num(-Margin), Num(0), Num(0)),
           Body(Str("A1"), Num(0), PosInf, Num(0), Num(0)),
           Body(Str("A1"), Undef, Num(0), Num(0), Num(0)),
           Body(Str("A1"), Num(TempMax + Margin), Undef, Num(0), Num(0)),
           Body(Str("A2"), Num(0), Num(0), Num(0), Num(0)),
           Body(Str(""), Num(0), Num(0), Num(0), Num(0)),
           Body(Undef, Num(0), Num(0), Num(0), Num(0))}

\* the smaller input sets of the concurrent specification
ConcHeaders == {AbsentHeader, Header(Chars_Bearer_t)}

ConcQueries == {Undef}

ConcBodies == {Body(Str("A1"), Num(TempMin), Num(0), Num(0), Num(0)),
               Body(Str("A1"), Num(TempMax), Num(Margin), Num(0), Num(0)),
               Body(Str("A2"), Num(0), Num(0), Num(0), Num(0)),
               Body(Str("A1"), Num(TempMax + Margin), Num(0), Num(0), Num(0))}

ConcAuthOutcomes == {[kind |-> "user", uid |-> "u_admin"],
                     [kind |-> "error", uid |-> ""],
                     [kind |-> "throw", uid |-> ""]}

\* the payloads validateSensorData is applied to under SpecValidate
AssetValues == {Undef, JNull, Str(""), Str("A1"), Num(0), Num(42)}

FieldValues == {Undef, JNull, Str("25"), NaN, PosInf, NegInf,
                Num(TempMin - Margin), Num(TempMin), Num(-Margin), Num(0),
                Num(TempMax), Num(TempMax + Margin)}

Payloads == {NoBody} \cup
            [def : {TRUE}, asset_id : AssetValues, temperature : FieldValues,
             pressure : FieldValues, vibration : FieldValues,
             energy_consumption : FieldValues]

----------------------------------------------------------------------------
(* Actions *)

\* a request arrives and runs to the first await, or to its response
Receive(i, hs, bs, qs) ==
  /\ reqs[i].pc = "idle"
  /\ nreq < MaxRequests
  /\ \E h \in hs, b \in bs, q \in qs :
       reqs' = [reqs EXCEPT ![i] =
                  HandlerStart([IdleReq EXCEPT !.id = nreq + 1, !.header = h,
                                               !.body = b, !.query = q])]
  /\ nreq' = nreq + 1
  /\ UNCHANGED <<db, vdata, vresult>>

\* getUser settles; the handler runs to the await of the insert, or to its response
GetUserSettles(i, outcomes, clock) ==
  /\ reqs[i].pc = "awaitGetUser"
  /\ \E o \in outcomes, now \in clock :
       reqs' = [reqs EXCEPT ![i] = HandlerAfterGetUser(reqs, i, o, now)]
  /\ UNCHANGED <<db, nreq, vdata, vresult>>

\* the database role and user the client's calls run as: the key of the
\* client, never the caller's token
ClientUid == ""

\* the insert settles: the database executes it, or the provider fails; the
\* handler runs to its response
InsertSettles(i, outcomes, clock) ==
  /\ reqs[i].pc = "awaitInsert"
  /\ \E o \in outcomes, dbnow \in clock :
       LET r == reqs[i]
           st == StoredRow(r.row, Cardinality(db) + 1, r.id, dbnow)
           err == IF o.kind = "exec" THEN InsertError(st, ClientRole, ClientUid)
                  ELSE o.detail
       IN /\ db' = IF o.kind = "exec" /\ err = NoError THEN db \cup {st} ELSE db
          /\ reqs' = [reqs EXCEPT ![i] =
                        HandlerAfterInsert([r EXCEPT !.ins = [kind |-> o.kind, detail |-> err]],
                                           err, o.kind = "throw")]
  /\ UNCHANGED <<nreq, vdata, vresult>>

\* the response is sent and the request object is dropped
Recycle(i) ==
  /\ reqs[i].pc = "done"
  /\ reqs' = [reqs EXCEPT ![i] = IdleReq]
  /\ UNCHANGED <<db, nreq, vdata, vresult>>

\* validateSensorData applied to a payload
Validate ==
  /\ vresult = "pending"
  /\ vresult' = validateSensorData(vdata)
  /\ UNCHANGED <<reqs, db, nreq, vdata>>

----------------------------------------------------------------------------
(* Specifications *)

\* one request at a time, MaxRequests of them in sequence
Init ==
  /\ reqs = [i \in {1} |-> IdleReq]
  /\ db = {}
  /\ nreq = 0
  /\ vdata = NoBody
  /\ vresult = "unused"

Next ==
  \/ \E i \in DOMAIN reqs : Receive(i, Headers, Bodies, Queries)
  \/ \E i \in DOMAIN reqs : GetUserSettles(i, AuthOutcomes, Clock)
  \/ \E i \in DOMAIN reqs : InsertSettles(i, InsOutcomes, Clock)
  \/ \E i \in DOMAIN reqs : Recycle(i)

Spec == Init /\ [][Next]_vars

\* MaxRequests concurrent requests, interleaved at their awaits
InitConc ==
  /\ reqs = [i \in 1..MaxRequests |-> IdleReq]
  /\ db = {}
  /\ nreq = 0
  /\ vdata = NoBody
  /\ vresult = "unused"

NextConc ==
  \/ \E i \in DOMAIN reqs : Receive(i, ConcHeaders, ConcBodies, ConcQueries)
  \/ \E i \in DOMAIN reqs : GetUserSettles(i, ConcAuthOutcomes, Clock)
  \/ \E i \in DOMAIN reqs : InsertSettles(i, InsOutcomes, Clock)

SpecConc == InitConc /\ [][NextConc]_vars

\* validateSensorData on every payload of Payloads
InitValidate ==
  /\ reqs = <<>>
  /\ db = {}
  /\ nreq = 0
  /\ vdata \in Payloads
  /\ vresult = "pending"

NextValidate == Validate

SpecValidate == InitValidate /\ [][NextValidate]_vars

----------------------------------------------------------------------------
(* Vocabulary of the properties, stated on the request's inputs and on the  *)
(* recorded provider outcomes, not through the handler's own operators      *)

Started(r) == r.pc # "idle"

Done(r) == r.pc = "done"

InsertCalls(r) == Cardinality({k \in 1..Len(r.calls) : r.calls[k] = "insert"})

GetUserCalls(r) == Cardinality({k \in 1..Len(r.calls) : r.calls[k] = "getUser"})

\* the header is present and starts with 'Bearer '
BearerScheme(h) ==
  /\ h.def
  /\ Len(h.chars) >= 7
  /\ SubSeq(h.chars, 1, 7) = <<"B", "e", "a", "r", "e", "r", " ">>

\* v is a number (NaN excluded) that is >= k, respectively <= k
NumberGE(v, k) == v.t = "inf" \/ (v.t = "number" /\ v.n >= k)

NumberLE(v, k) == v.t = "ninf" \/ (v.t = "number" /\ v.n <= k)

IsNumber(v) == v.t \in {"number", "inf", "ninf"}

AllNumbers(b) ==
  /\ IsNumber(b.temperature) /\ IsNumber(b.pressure)
  /\ IsNumber(b.vibration) /\ IsNumber(b.energy_consumption)

AllInRange(b) ==
  /\ NumberGE(b.temperature, -50) /\ NumberLE(b.temperature, 150)
  /\ NumberGE(b.pressure, 0)
  /\ NumberGE(b.vibration, 0)
  /\ NumberGE(b.energy_consumption, 0)

\* asset_id is present and is a string
AssetIsString(b) == b.asset_id.t = "string"

\* asset_id is a string that is not empty
AssetIsNonEmptyString(b) == b.asset_id.t = "string" /\ b.asset_id.s # ""

\* a payload that passes validation
PayloadValid(b) == b.def /\ AssetIsNonEmptyString(b) /\ AllNumbers(b) /\ AllInRange(b)

AuthFailed(r) == r.auth.kind \in {"error", "nouser"}

InsertFailed(r) == r.ins.kind \in {"error", "throw"}
                   \/ (r.ins.kind = "exec" /\ r.ins.detail # NoError)

\* the rows of sensor_readings that came from request r
RowsOf(r) == {row \in db : row.by = r.id}

----------------------------------------------------------------------------
(* C1 *)

\* C1 as stated: a request that ends 200 has issued exactly one insert call,
\* a request that ends with any other status has issued none, and no request
\* ever issues more than one.
C1_NoInsertOnAnyFailure ==
  \A i \in DOMAIN reqs :
    /\ InsertCalls(reqs[i]) <= 1
    /\ Done(reqs[i]) =>
         IF reqs[i].status = 200 THEN InsertCalls(reqs[i]) = 1
         ELSE InsertCalls(reqs[i]) = 0

\* C1, amended: no request ever issues more than one insert call; a request
\* that ends 200 has issued exactly one; a request that ends 401 or 400, or
\* 500 because token verification or validation threw, has issued none; a
\* request that ends 500 because the insert call itself failed has issued
\* exactly one.
C1_InsertCallsByOutcome ==
  \A i \in DOMAIN reqs :
    /\ InsertCalls(reqs[i]) <= 1
    /\ Done(reqs[i]) =>
         /\ reqs[i].status = 200 => InsertCalls(reqs[i]) = 1
         /\ reqs[i].status \in {400, 401} => InsertCalls(reqs[i]) = 0
         /\ (reqs[i].status = 500 /\ (reqs[i].auth.kind = "throw" \/ ~reqs[i].body.def))
              => InsertCalls(reqs[i]) = 0
         /\ (reqs[i].status = 500 /\ InsertFailed(reqs[i]))
              => InsertCalls(reqs[i]) = 1
         /\ reqs[i].status = 500 =>
              (reqs[i].auth.kind = "throw" \/ ~reqs[i].body.def \/ InsertFailed(reqs[i]))

\* a request has ended 500 on a failed insert, with its one insert call made
C1_Witness ==
  \E i \in DOMAIN reqs :
    /\ Done(reqs[i]) /\ reqs[i].status = 500
    /\ InsertFailed(reqs[i]) /\ InsertCalls(reqs[i]) = 1

----------------------------------------------------------------------------
(* C2 *)

\* the status the first failing step gives, in the order header check, token
\* verification, validation, insert
StatusByFirstFailure(r) ==
  IF ~BearerScheme(r.header) THEN 401
  ELSE IF r.auth.kind = "throw" THEN 500
  ELSE IF AuthFailed(r) THEN 401
  ELSE IF ~r.body.def THEN 500
  ELSE IF ~PayloadValid(r.body) THEN 400
  ELSE IF InsertFailed(r) THEN 500
  ELSE 200

\* C2: every request that has ended has sent exactly one response, whose
\* status is that of the first failing step (401 header or token, else 400
\* validation, else 500 insert, 500 for a step that throws, else 200); a
\* request that has not ended has sent none.
C2_StatusByFirstFailure ==
  \A i \in DOMAIN reqs :
    /\ Done(reqs[i]) => /\ reqs[i].nresp = 1
                        /\ reqs[i].status = StatusByFirstFailure(reqs[i])
    /\ ~Done(reqs[i]) => reqs[i].nresp = 0 /\ reqs[i].status = 0

\* a request with a bearer header whose token resolved to no identity and
\* whose payload is invalid has ended 401
C2_Witness ==
  \E i \in DOMAIN reqs :
    /\ Done(reqs[i]) /\ BearerScheme(reqs[i].header)
    /\ reqs[i].auth.kind = "nouser"
    /\ reqs[i].body.def /\ ~PayloadValid(reqs[i].body)
    /\ reqs[i].status = 401

----------------------------------------------------------------------------
(* C3 *)

\* C3: every row of sensor_readings has a temperature in [-50, 150] and a
\* pressure, a vibration and an energy_consumption that are >= 0.
C3_PersistedInRange ==
  \A row \in db :
    /\ row.temperature.t = "number"
    /\ row.temperature.n >= -50 /\ row.temperature.n <= 150
    /\ row.pressure.t = "number" /\ row.pressure.n >= 0
    /\ row.vibration.t = "number" /\ row.vibration.n >= 0
    /\ row.energy_consumption.t = "number" /\ row.energy_consumption.n >= 0

----------------------------------------------------------------------------
(* C4 *)

\* C4: a row of sensor_readings came from a request whose verified identity
\* has the role admin or engineer.
C4_OnlyAdminOrEngineerInserts ==
  \A i \in DOMAIN reqs :
    RowsOf(reqs[i]) # {} =>
      /\ reqs[i].auth.kind = "user"
      /\ get_user_role(reqs[i].auth.uid) \in {"admin", "engineer"}

----------------------------------------------------------------------------
(* C5 *)

\* C5: a request whose Authorization header is absent or does not start with
\* 'Bearer ' has ended 401 with no call to the auth provider or to the storage
\* provider; getUser is called only for a header that passed the check, and
\* before any insert.
C5_NoVerificationWithoutBearer ==
  \A i \in DOMAIN reqs :
    /\ (Started(reqs[i]) /\ ~BearerScheme(reqs[i].header)) =>
         /\ Done(reqs[i]) /\ reqs[i].status = 401
         /\ reqs[i].calls = <<>>
         /\ reqs[i].auth.kind = "none"
    /\ reqs[i].calls # <<>> =>
         /\ BearerScheme(reqs[i].header)
         /\ reqs[i].calls[1] = "getUser"
         /\ GetUserCalls(reqs[i]) = 1

\* a request with a header that is present but of another scheme has ended
\* 401 without a provider call
C5_Witness ==
  \E i \in DOMAIN reqs :
    /\ Done(reqs[i]) /\ reqs[i].header.def /\ ~BearerScheme(reqs[i].header)
    /\ reqs[i].status = 401 /\ reqs[i].calls = <<>>

----------------------------------------------------------------------------
(* C6 *)

Validated == vresult # "pending" /\ vdata.def

\* the numeric fields of the payload that are missing, not numbers or NaN, by
\* their position in the order temperature, pressure, vibration,
\* energy_consumption
TypeErrors(b) ==
  {k \in 1..4 :
     ~IsNumber(b[<<"temperature", "pressure", "vibration", "energy_consumption">>[k]])}

InvalidFieldMessage(k) ==
  <<"Invalid temperature", "Invalid pressure", "Invalid vibration",
    "Invalid energy_consumption">>[k]

\* the range violations of a payload whose four fields are numbers, by position
RangeViolations(b) ==
  {k \in 1..4 :
     \/ k = 1 /\ ~(NumberGE(b.temperature, -50) /\ NumberLE(b.temperature, 150))
     \/ k = 2 /\ ~NumberGE(b.pressure, 0)
     \/ k = 3 /\ ~NumberGE(b.vibration, 0)
     \/ k = 4 /\ ~NumberGE(b.energy_consumption, 0)}

RangeMessage(k) ==
  <<"Temperature must be between -50 and 150", "Pressure must be non-negative",
    "Vibration must be non-negative", "Energy consumption must be non-negative">>[k]

Least(S) == CHOOSE k \in S : \A j \in S : k <= j

\* C6: validateSensorData reports the first violation in the order asset_id,
\* then the type of temperature, pressure, vibration, energy_consumption, and
\* only when all four are numbers the ranges in the same order: a type error
\* of any field is reported before a range violation of any other.
C6_FirstViolationInFixedOrder ==
  Validated =>
    IF vresult = "Invalid asset_id" THEN ~AssetIsNonEmptyString(vdata)
    ELSE /\ AssetIsNonEmptyString(vdata)
         /\ IF TypeErrors(vdata) # {}
            THEN vresult = InvalidFieldMessage(Least(TypeErrors(vdata)))
            ELSE IF RangeViolations(vdata) # {}
            THEN vresult = RangeMessage(Least(RangeViolations(vdata)))
            ELSE vresult = NoError

\* temperature out of range and a later field of the wrong type: the type
\* error is the one reported
C6_Witness ==
  /\ Validated
  /\ AssetIsNonEmptyString(vdata)
  /\ vdata.temperature.t = "number" /\ vdata.temperature.n > 150
  /\ vdata.pressure = Undef
  /\ vresult = "Invalid pressure"

----------------------------------------------------------------------------
(* C7 *)

\* C7 as stated: a payload is accepted if and only if asset_id is present and
\* is a string, the four fields are numbers other than NaN, temperature is in
\* [-50, 150] and the other three are >= 0; a payload with a missing or
\* non-string asset_id is rejected with 'Invalid asset_id'.
C7_AcceptsIffStringAssetAndRanges ==
  Validated =>
    /\ vresult = NoError <=>
         (AssetIsString(vdata) /\ AllNumbers(vdata) /\ AllInRange(vdata))
    /\ ~AssetIsString(vdata) => vresult = "Invalid asset_id"

\* C7, amended: a payload that is an object is accepted if and only if
\* asset_id is a non-empty string, the four fields are numbers other than
\* NaN, temperature is in [-50, 150] and the other three are >= 0; a payload
\* with a missing, non-string or empty asset_id is rejected with
\* 'Invalid asset_id'.
C7_AcceptsIffNonEmptyAssetAndRanges ==
  Validated =>
    /\ vresult = NoError <=>
         (AssetIsNonEmptyString(vdata) /\ AllNumbers(vdata) /\ AllInRange(vdata))
    /\ ~AssetIsNonEmptyString(vdata) => vresult = "Invalid asset_id"

\* the boundary values -50 and 0 are accepted
C7_Witness ==
  /\ Validated
  /\ vdata.asset_id = Str("A1")
  /\ vdata.temperature = Num(-50)
  /\ vdata.pressure = Num(0)
  /\ vdata.vibration = Num(0)
  /\ vdata.energy_consumption = Num(0)
  /\ vresult = NoError

----------------------------------------------------------------------------
(* C8 *)

InsertIssued(r) == InsertCalls(r) >= 1

RowEqualsBody(r) ==
  /\ r.row.def
  /\ r.row.asset_id = r.body.asset_id
  /\ r.row.temperature = r.body.temperature
  /\ r.row.pressure = r.body.pressure
  /\ r.row.vibration = r.body.vibration
  /\ r.row.energy_consumption = r.body.energy_consumption

\* the timestamp query parameter was supplied
Supplied(q) == q.t # "undefined"

\* C8 as stated: the row handed to the insert has the body's values, and its
\* timestamp is the query parameter whenever that is supplied and the current
\* time only when it is not.
C8_TimestampIsParameterWhenSupplied ==
  \A i \in DOMAIN reqs :
    InsertIssued(reqs[i]) =>
      /\ RowEqualsBody(reqs[i])
      /\ reqs[i].row.timestamp =
           IF Supplied(reqs[i].query) THEN reqs[i].query ELSE Str(reqs[i].clock)

\* C8, amended: the row handed to the insert has the body's values, and its
\* timestamp is the query parameter whenever that is supplied and not the
\* empty string, and the current time when the parameter is not supplied or
\* is empty.
C8_TimestampIsParameterWhenNonEmpty ==
  \A i \in DOMAIN reqs :
    InsertIssued(reqs[i]) =>
      /\ RowEqualsBody(reqs[i])
      /\ reqs[i].row.timestamp =
           IF Supplied(reqs[i].query) /\ reqs[i].query # Str("")
           THEN reqs[i].query ELSE Str(reqs[i].clock)

\* an insert was issued for a request with a timestamp parameter that differs
\* from the current time
C8_Witness ==
  \E i \in DOMAIN reqs :
    /\ InsertIssued(reqs[i])
    /\ Supplied(reqs[i].query) /\ reqs[i].query # Str("")
    /\ reqs[i].query # Str(reqs[i].clock)
    /\ reqs[i].row.timestamp = reqs[i].query

----------------------------------------------------------------------------
(* C9 *)

\* two requests with the same inputs, the same verification outcome and an
\* insert that failed the same way (returned or thrown), whatever the error
SameButStorageError(r, q) ==
  /\ r.header = q.header /\ r.body = q.body /\ r.query = q.query
  /\ r.auth = q.auth
  /\ InsertFailed(r) /\ InsertFailed(q)
  /\ (r.ins.kind = "throw") = (q.ins.kind = "throw")

\* C9: a request whose insert failed has ended 500 with a body that is not
\* the provider's error; two requests that differ only in the error the
\* storage provider returned (or threw) have the same status and body.
C9_StorageErrorNotInResponse ==
  \A i \in DOMAIN reqs :
    /\ (Done(reqs[i]) /\ InsertFailed(reqs[i])) =>
         /\ reqs[i].status = 500
         /\ reqs[i].rbody # reqs[i].ins.detail
    /\ \A j \in DOMAIN reqs :
         (Done(reqs[i]) /\ Done(reqs[j]) /\ SameButStorageError(reqs[i], reqs[j])) =>
           /\ reqs[i].status = reqs[j].status
           /\ reqs[i].rbody = reqs[j].rbody

\* two requests, equal but for the error their insert returned, have ended
C9_Witness ==
  \E i, j \in DOMAIN reqs :
    /\ Done(reqs[i]) /\ Done(reqs[j])
    /\ SameButStorageError(reqs[i], reqs[j])
    /\ reqs[i].ins.kind = "error"
    /\ reqs[i].ins.detail # reqs[j].ins.detail
    /\ reqs[i].status = 500

----------------------------------------------------------------------------
(* C10 *)

\* the handler run on request r alone: the same inputs and the provider
\* outcomes r has met so far, with no other request in the service
SoloStart(r) ==
  HandlerStart([IdleReq EXCEPT !.id = r.id, !.header = r.header,
                               !.body = r.body, !.query = r.query])

SoloAfterGetUser(r) ==
  LET s1 == SoloStart(r)
  IN IF s1.pc = "awaitGetUser" /\ r.auth.kind # "none"
     THEN HandlerAfterGetUser([k \in {0} |-> s1], 0, r.auth,
                              IF r.clock = "" THEN CHOOSE c \in Clock : TRUE ELSE r.clock)
     ELSE s1

SoloRun(r) ==
  LET s2 == SoloAfterGetUser(r)
  IN IF s2.pc = "awaitInsert" /\ r.ins.kind # "none"
     THEN HandlerAfterInsert([s2 EXCEPT !.ins = r.ins], r.ins.detail, r.ins.kind = "throw")
     ELSE s2

\* the rows the run s of a request alone leaves in the table
SoloRows(s) ==
  IF s.ins.kind = "exec" /\ s.ins.detail = NoError
  THEN {[StoredRow(s.row, 0, s.id, dbnow) EXCEPT !.id = 0] : dbnow \in Clock}
  ELSE {}

\* C10: under every interleaving each request is where, and answers what, it
\* would running alone with the same provider outcomes; it leaves at most one
\* row, the row it would leave alone (up to the generated id).
C10_RequestsIsolated ==
  \A i \in DOMAIN reqs :
    Started(reqs[i]) =>
      LET solo == SoloRun(reqs[i])
          rows == RowsOf(reqs[i])
      IN /\ reqs[i] = solo
         /\ Cardinality(rows) <= 1
         /\ {[row EXCEPT !.id = 0] : row \in rows} \subseteq SoloRows(solo)
         /\ (Done(reqs[i]) /\ reqs[i].status = 200) => rows # {}

\* two requests with different bodies overlapped: the one received second
\* inserted first, and both have ended 200
C10_Witness ==
  \E i, j \in DOMAIN reqs :
    /\ Done(reqs[i]) /\ Done(reqs[j])
    /\ reqs[i].status = 200 /\ reqs[j].status = 200
    /\ reqs[i].id < reqs[j].id
    /\ reqs[i].body # reqs[j].body
    /\ \E ri \in RowsOf(reqs[i]), rj \in RowsOf(reqs[j]) : rj.id < ri.id

====
